---- MODULE Spec2Model ----
(***************************************************************************)
(* Model of nearby.py: the recursive key extractor extract_data, the       *)
(* de-duplicating GeoJsonFeatureCollection, and the Nearby orchestration   *)
(* (RequesAPI.retrive_coordinate, RequesAPI.nearby_coor, Nearby.run).      *)
(***************************************************************************)
EXTENDS Integers, Sequences, FiniteSets, TLC

VARIABLES
    pc,             \* position of the modelled caller
    obj,            \* extract_data: the JSON value handed to the extractor
    key,            \* extract_data: the key looked for
    exclude,        \* extract_data: kwargs['exclude'] (a set of key names)
    out,            \* extract_data: list(extract_data(obj, key, exclude=...))
    features,       \* GeoJsonFeatureCollection._collection['features']
    count_feature,  \* GeoJsonFeatureCollection.count_feature
    ret,            \* what the last add_features call returned
    calls,          \* the add_features calls made so far, in order
    nearby,         \* Nearby.nearby: the search terms
    geocode,        \* the body the geocoding request returned
    location,       \* RequesAPI.location: the resolved coordinate
    size,           \* run(size): the per-term maximum
    geojson,        \* run's local geojson: "None" until the collection is made
    n_idx,          \* run: position of `for n in self.nearby`
    response,       \* run: the items nearby_coor returned for the current term
    p_idx,          \* run: position of `for p in response`
    cmp_size,       \* run: features accepted for the current term
    term_base,      \* number of stored features when the current term began
    queried,        \* the terms the places endpoint was asked for, in order
    dumped,         \* number of times the collection was written to the file
    error           \* the exception that ended the run, or "none"

exVars == <<obj, key, exclude, out>>
fcVars == <<features, count_feature>>
logVars == <<ret, calls>>
runVars == <<nearby, geocode, location, size, geojson, n_idx, response, p_idx,
             cmp_size, term_base, queried, dumped, error>>
vars == <<pc, exVars, fcVars, logVars, runVars>>

----------------------------------------------------------------------------
(* JSON values as Python holds them after json parsing.  A value is a      *)
(* record [ty, n, s, items]: ty is the Python type, n the number of an     *)
(* int/float (the object identity of a NaN), s the text of a str, items    *)
(* the entries of a dict (records [k, v], in insertion order) or the       *)
(* elements of a list.                                                     *)

JInt(n)   == [ty |-> "int",   n |-> n, s |-> "", items |-> <<>>]
JFloat(n) == [ty |-> "float", n |-> n, s |-> "", items |-> <<>>]
JNaN(id)  == [ty |-> "nan",   n |-> id, s |-> "", items |-> <<>>]
JStr(s)   == [ty |-> "str",   n |-> 0, s |-> s,  items |-> <<>>]
JNull     == [ty |-> "NoneType", n |-> 0, s |-> "", items |-> <<>>]
JDict(es) == [ty |-> "dict",  n |-> 0, s |-> "", items |-> es]
JList(xs) == [ty |-> "list",  n |-> 0, s |-> "", items |-> xs]
Entry(k, v) == [k |-> k, v |-> v]

\* isinstance(v, (dict, list))
IsContainer(v) == v.ty \in {"dict", "list"}

\* Python's == on JSON values, as `in` applies it: identical objects are
\* equal (so a NaN equals itself and no other NaN), an int equals the float
\* of the same value, lists are equal element by element and dicts key by
\* key whatever the order of their entries.
RECURSIVE PyEq(_, _)
PyEq(a, b) ==
    \/ a = b
    \/ a.ty \in {"int", "float"} /\ b.ty \in {"int", "float"} /\ a.n = b.n
    \/ /\ a.ty = "list" /\ b.ty = "list"
       /\ Len(a.items) = Len(b.items)
       /\ \A i \in 1..Len(a.items) : PyEq(a.items[i], b.items[i])
    \/ /\ a.ty = "dict" /\ b.ty = "dict"
       /\ Len(a.items) = Len(b.items)
       /\ \A i \in 1..Len(a.items) : \E j \in 1..Len(b.items) :
             a.items[i].k = b.items[j].k /\ PyEq(a.items[i].v, b.items[j].v)

----------------------------------------------------------------------------
(* extract_data                                                            *)

\* dict_entry with the exclude test dropped
dict_entry_noexclude(k, v, targetKey, excl) ==
    IF k = targetKey THEN "yield"
    ELSE IF IsContainer(v) THEN "recurse"
    ELSE "skip"

\* dict_entry with the exclude test placed before the match test
dict_entry_excludefirst(k, v, targetKey, excl) ==
    IF k \in excl THEN "skip"
    ELSE IF k = targetKey THEN "yield"
    ELSE IF IsContainer(v) THEN "recurse"
    ELSE "skip"

\* What the dict loop does with one entry (k, v); excl is the collection
\* kwargs.get('exclude', []).
dict_entry(k, v, targetKey, excl) ==
    IF k = targetKey THEN "yield"
    ELSE IF k \in excl THEN "skip"
    ELSE IF IsContainer(v) THEN "recurse"
    ELSE "skip"

\* extract_data without the `continue` after `yield v`
RECURSIVE extract_data_nocontinue(_, _, _)
extract_data_nocontinue(o, targetKey, excl) ==
    LET RECURSIVE walk(_)
        walk(i) ==
            IF i > Len(o.items) THEN <<>>
            ELSE LET e == o.items[i]
                     here ==
                        IF o.ty = "dict"
                        THEN (IF e.k = targetKey THEN <<e.v>> ELSE <<>>) \o
                             (IF e.k \notin excl /\ IsContainer(e.v)
                              THEN extract_data_nocontinue(e.v, targetKey, excl)
                              ELSE <<>>)
                        ELSE extract_data_nocontinue(e, targetKey, excl)
                 IN  here \o walk(i + 1)
    IN  IF IsContainer(o) THEN walk(1) ELSE <<>>

RECURSIVE extract_data(_, _, _)
extract_data(o, targetKey, excl) ==
    LET RECURSIVE walk(_)
        walk(i) ==
            IF i > Len(o.items) THEN <<>>
            ELSE LET e == o.items[i]
                     here ==
                        IF o.ty = "dict"
                        THEN LET act == dict_entry(e.k, e.v, targetKey, excl)
                             IN  IF act = "yield" THEN <<e.v>>
                                 ELSE IF act = "recurse"
                                      THEN extract_data(e.v, targetKey, excl)
                                      ELSE <<>>
                        ELSE extract_data(e, targetKey, excl)
                 IN  here \o walk(i + 1)
    IN  IF IsContainer(o) THEN walk(1) ELSE <<>>

----------------------------------------------------------------------------
(* Inputs of the extractor: every JSON tree of at most MaxNodes nodes over *)
(* KeyNames and ScalarVals, and the scenario tree of the documentation.    *)

MaxNodes == 4
KeyNames == {"DisplayPosition", "a", "b"}
ScalarVals == {JInt(1), JInt(2)}

\* the dicts whose values are the trees of forest f, under distinct keys
Keyed(f) ==
    LET n == Len(f)
        ks == {g \in [1..n -> KeyNames] : \A i, j \in 1..n : i # j => g[i] # g[j]}
    IN  {JDict([i \in 1..n |-> Entry(g[i], f[i])]) : g \in ks}

RECURSIVE TreesOfSize(_), ForestsOfSize(_)
TreesOfSize(n) ==
    IF n = 1 THEN ScalarVals \cup {JDict(<<>>), JList(<<>>)}
    ELSE LET F == ForestsOfSize(n - 1)
         IN  {JList(f) : f \in F} \cup UNION {Keyed(f) : f \in F}
ForestsOfSize(m) ==
    IF m = 0 THEN {<<>>}
    ELSE UNION {{<<t>> \o f : t \in TreesOfSize(j), f \in ForestsOfSize(m - j)}
                : j \in 1..m}

ExampleTree ==
    JDict(<<Entry("a", JDict(<<Entry("DisplayPosition",
                JDict(<<Entry("Latitude", JInt(1)), Entry("Longitude", JInt(2))>>))>>)),
            Entry("b", JList(<<JDict(<<Entry("DisplayPosition", JInt(5))>>)>>))>>)

TreeSet == UNION {TreesOfSize(n) : n \in 1..MaxNodes} \cup {ExampleTree}

InitExtract ==
    /\ pc = "call"
    /\ obj \in TreeSet
    /\ key \in KeyNames
    /\ exclude \in SUBSET KeyNames
    /\ out = <<>>
    /\ features = <<>>
    /\ count_feature = 0
    /\ ret = "none"
    /\ calls = <<>>
    /\ nearby = JNull
    /\ geocode = JNull
    /\ location = JNull
    /\ size = 0
    /\ geojson = "None"
    /\ n_idx = 0
    /\ response = <<>>
    /\ p_idx = 0
    /\ cmp_size = 0
    /\ term_base = 0
    /\ queried = <<>>
    /\ dumped = 0
    /\ error = "none"

\* list(extract_data(obj, key, exclude=exclude))
Extract ==
    /\ pc = "call"
    /\ out' = extract_data(obj, key, exclude)
    /\ pc' = "returned"
    /\ UNCHANGED <<obj, key, exclude, fcVars, logVars, runVars>>

NextExtract == Extract

SpecExtract == InitExtract /\ [][NextExtract]_vars

----------------------------------------------------------------------------
(* Occurrence sites.  A node of a tree is named by its positional path     *)
(* from the root (entry or element numbers); depth-first order is the      *)
(* lexicographic order of the paths.                                       *)

Child(t, i) == IF t.ty = "dict" THEN t.items[i].v ELSE t.items[i]

RECURSIVE NodeAt(_, _)
NodeAt(t, p) == IF p = <<>> THEN t ELSE NodeAt(Child(t, Head(p)), Tail(p))

RECURSIVE AllPaths(_)
AllPaths(t) ==
    {<<>>} \cup UNION {{<<i>> \o p : p \in AllPaths(Child(t, i))}
                       : i \in 1..Len(t.items)}

Parent(t, p, j) == NodeAt(t, SubSeq(p, 1, j - 1))
\* step j of path p enters a mapping entry named k
StepIsKey(t, p, j, k) ==
    /\ Parent(t, p, j).ty = "dict"
    /\ Parent(t, p, j).items[p[j]].k = k

\* p ends at an entry named k and passes through no other entry named k
IsSite(t, p, k) ==
    /\ p # <<>>
    /\ StepIsKey(t, p, Len(p), k)
    /\ \A j \in 1..(Len(p) - 1) : ~StepIsKey(t, p, j, k)

Sites(t, k) == {p \in AllPaths(t) : IsSite(t, p, k)}

\* the value at p is, or lies inside, a subtree stored under a key of E
UnderKeyOf(t, p, E) == \E j \in 1..Len(p) : \E k \in E : StepIsKey(t, p, j, k)

LexLess(p, q) ==
    \/ Len(p) < Len(q) /\ SubSeq(q, 1, Len(p)) = p
    \/ \E i \in 1..Len(p) :
          /\ i <= Len(q)
          /\ p[i] < q[i]
          /\ SubSeq(p, 1, i - 1) = SubSeq(q, 1, i - 1)

RECURSIVE InOrder(_)
InOrder(S) ==
    IF S = {} THEN <<>>
    ELSE LET m == CHOOSE p \in S : \A q \in S \ {p} : LexLess(p, q)
         IN  <<m>> \o InOrder(S \ {m})

ValuesAt(t, ps) == [i \in 1..Len(ps) |-> NodeAt(t, ps[i])]

ExampleOutput ==
    <<JDict(<<Entry("Latitude", JInt(1)), Entry("Longitude", JInt(2))>>), JInt(5)>>

\* C3: with no exclusion set, the output of extract_data is the values at
\* the occurrence sites of the key (entries named key that lie inside no
\* other entry named key), once per site, in depth-first order; the
\* scenario tree yields [{Latitude: 1, Longitude: 2}, 5].
C3_SitesInOrder ==
    (pc = "returned" /\ exclude = {}) =>
        /\ out = ValuesAt(obj, InOrder(Sites(obj, key)))
        /\ (obj = ExampleTree /\ key = "DisplayPosition") => out = ExampleOutput

\* a matched value that holds the key again, next to a later sibling entry
C3_Witness ==
    /\ pc = "returned"
    /\ exclude = {}
    /\ Len(out) = 1
    /\ extract_data(out[1], key, {}) # <<>>
    /\ obj.ty = "dict"
    /\ Len(obj.items) = 2
    /\ obj.items[1].k = key

\* C4: when the key is not excluded, the output is the output without
\* exclusion minus exactly the values inside subtrees stored under an
\* excluded key, the rest in the same order.
C4_ExcludeRemovesSubtrees ==
    (pc = "returned" /\ key \notin exclude) =>
        out = ValuesAt(obj, InOrder({p \in Sites(obj, key) :
                                        ~UnderKeyOf(obj, p, exclude)}))

\* an excluded subtree hides one occurrence while another branch yields one
C4_Witness ==
    /\ pc = "returned"
    /\ key \notin exclude
    /\ Len(out) = 1
    /\ Cardinality(Sites(obj, key)) = 2

\* C5: when the key is itself excluded, entries named key are still
\* yielded: the output is the values at the sites that lie inside no
\* subtree stored under another excluded key.
C5_MatchBeforeExclude ==
    (pc = "returned" /\ key \in exclude) =>
        out = ValuesAt(obj, InOrder({p \in Sites(obj, key) :
                                        ~UnderKeyOf(obj, p, exclude \ {key})}))

C5_Witness ==
    /\ pc = "returned"
    /\ key \in exclude
    /\ exclude # {key}
    /\ Len(out) = 1
    /\ Cardinality(Sites(obj, key)) = 2

----------------------------------------------------------------------------
(* GeoJsonFeatureCollection                                                *)

\* the dict built at the head of add_features
Feature(longtitude, latitude, vicinity, title) ==
    [type |-> "Feature",
     geometry |-> [type |-> "Point", coordinates |-> <<longtitude, latitude>>],
     properties |-> [address |-> vicinity, name |-> title]]

\* == on two feature dicts
FeatureEq(f, g) ==
    /\ f.type = g.type
    /\ f.geometry.type = g.geometry.type
    /\ Len(f.geometry.coordinates) = Len(g.geometry.coordinates)
    /\ \A i \in 1..Len(f.geometry.coordinates) :
          PyEq(f.geometry.coordinates[i], g.geometry.coordinates[i])
    /\ PyEq(f.properties.address, g.properties.address)
    /\ PyEq(f.properties.name, g.properties.name)

\* `features in self._collection['features']`
Contains(fs, f) == \E i \in 1..Len(fs) : FeatureEq(fs[i], f)

\* add_features that appends without looking for the feature
add_features_nodedup(fs, cnt, f) ==
    [features |-> Append(fs, f), count_feature |-> cnt + 1, ret |-> TRUE]

\* add_features that counts a rejected feature too
add_features_countall(fs, cnt, f) ==
    IF ~Contains(fs, f)
    THEN [features |-> Append(fs, f), count_feature |-> cnt + 1, ret |-> TRUE]
    ELSE [features |-> fs, count_feature |-> cnt + 1, ret |-> FALSE]

\* add_features that puts a new feature in front
add_features_prepend(fs, cnt, f) ==
    IF ~Contains(fs, f)
    THEN [features |-> <<f>> \o fs, count_feature |-> cnt + 1, ret |-> TRUE]
    ELSE [features |-> fs, count_feature |-> cnt, ret |-> FALSE]

\* the body of add_features after the feature dict f is built: the new
\* list, the new counter and the returned value
add_features(fs, cnt, f) ==
    IF ~Contains(fs, f)
    THEN [features |-> Append(fs, f), count_feature |-> cnt + 1, ret |-> TRUE]
    ELSE [features |-> fs, count_feature |-> cnt, ret |-> FALSE]

MaxCalls == 3
\* the arguments offered: an int and the float equal to it; a second int
\* and two NaN objects
LongitudeVals == {JInt(1), JFloat(1)}
LatitudeVals == {JInt(2), JNaN(1), JNaN(2)}
AddressVals == {JStr("X"), JNull}
NameVals == {JStr("A"), JStr("B")}

\* GeoJsonFeatureCollection()
InitCollection ==
    /\ pc = "collection"
    /\ features = <<>>
    /\ count_feature = 0
    /\ ret = "none"
    /\ calls = <<>>
    /\ obj = JNull
    /\ key = ""
    /\ exclude = {}
    /\ out = <<>>
    /\ nearby = JNull
    /\ geocode = JNull
    /\ location = JNull
    /\ size = 0
    /\ geojson = "None"
    /\ n_idx = 0
    /\ response = <<>>
    /\ p_idx = 0
    /\ cmp_size = 0
    /\ term_base = 0
    /\ queried = <<>>
    /\ dumped = 0
    /\ error = "none"

\* geojson.add_features(longtitude, latitude, vicinity, title)
AddFeatures ==
    /\ pc = "collection"
    /\ Len(calls) < MaxCalls
    /\ \E lon \in LongitudeVals, lat \in LatitudeVals,
          vicinity \in AddressVals, title \in NameVals :
          LET f == Feature(lon, lat, vicinity, title)
              r == add_features(features, count_feature, f)
          IN  /\ features' = r.features
              /\ count_feature' = r.count_feature
              /\ ret' = r.ret
              /\ calls' = Append(calls, [feature |-> f, ret |-> r.ret,
                                         stored |-> Len(features)])
    /\ UNCHANGED <<pc, exVars, runVars>>

NextCollection == AddFeatures

SpecCollection == InitCollection /\ [][NextCollection]_vars

\* C1: the features list never holds two equal Feature records.
C1_NoDuplicates ==
    pc = "collection" =>
        \A i, j \in 1..Len(features) :
            i # j => ~FeatureEq(features[i], features[j])

\* a feature was offered twice and is stored once
C1_Witness ==
    /\ pc = "collection"
    /\ Len(calls) = 3
    /\ Len(features) = 2
    /\ calls[1].feature = calls[3].feature

\* C2: a call whose Feature record is already stored returns False and
\* leaves the features list and the counter as they were; a four-tuple
\* accepted by one call and offered again by the next is rejected, so the
\* two calls together store exactly one feature more.
C2_DuplicateRejected ==
    [][(pc = "collection" /\ Len(calls') = Len(calls) + 1) =>
        LET c == calls'[Len(calls')]
        IN  /\ Contains(features, c.feature) =>
                  /\ ret' = FALSE
                  /\ features' = features
                  /\ count_feature' = count_feature
            /\ (calls # <<>> /\ calls[Len(calls)].feature = c.feature
                             /\ calls[Len(calls)].ret = TRUE) =>
                  /\ ret' = FALSE
                  /\ Len(features') = calls[Len(calls)].stored + 1
                  /\ count_feature' = calls[Len(calls)].stored + 1]_vars

\* the same four-tuple twice in a row: True, then False
C2_Witness ==
    /\ pc = "collection"
    /\ Len(calls) = 2
    /\ calls[1].feature = calls[2].feature
    /\ calls[1].ret = TRUE
    /\ calls[2].ret = FALSE
    /\ Len(features) = 1

\* the features offered so far that equal no feature offered before them
RECURSIVE FirstArrivals(_)
FirstArrivals(cs) ==
    IF cs = <<>> THEN <<>>
    ELSE LET front == SubSeq(cs, 1, Len(cs) - 1)
             last == cs[Len(cs)].feature
         IN  IF \E i \in 1..Len(front) : FeatureEq(front[i].feature, last)
             THEN FirstArrivals(front)
             ELSE Append(FirstArrivals(front), last)

\* C10: count_feature is the length of the features list, and the list is
\* the distinct Feature records offered so far in order of first arrival.
C10_CountAndOrder ==
    pc = "collection" =>
        /\ count_feature = Len(features)
        /\ features = FirstArrivals(calls)

\* two features stored, a duplicate rejected in between
C10_Witness ==
    /\ pc = "collection"
    /\ Len(calls) = 3
    /\ calls[2].ret = FALSE
    /\ calls[3].ret = TRUE
    /\ Len(features) = 2

----------------------------------------------------------------------------
(* requests_, RequesAPI and Nearby                                         *)

\* `not v`
Falsy(v) ==
    \/ v.ty = "NoneType"
    \/ v.ty \in {"int", "float"} /\ v.n = 0
    \/ v.ty = "str" /\ v.s = ""
    \/ v.ty \in {"dict", "list"} /\ v.items = <<>>

HasKey(d, k) == d.ty = "dict" /\ \E i \in 1..Len(d.items) : d.items[i].k = k
\* d[k] of a dict that has k
Item(d, k) == d.items[CHOOSE i \in 1..Len(d.items) : d.items[i].k = k].v
\* d.get(k)
Get(d, k) == IF HasKey(d, k) THEN Item(d, k) ELSE JNull

\* requests_: the parsed body, or the error raised on a falsy body
requests_(body) ==
    IF Falsy(body) THEN [error |-> "ValueError: No data found", response |-> JNull]
    ELSE [error |-> "none", response |-> body]

\* retrive_coordinate on the body the geocoding request returned
retrive_coordinate(body) ==
    LET r == requests_(body)
        found == extract_data(r.response, "DisplayPosition", {})
    IN  IF r.error # "none" THEN [error |-> r.error, coordinate |-> JNull]
        ELSE IF found = <<>>
             THEN [error |-> "IndexError: list index out of range",
                   coordinate |-> JNull]
        ELSE IF Falsy(found[1])
             THEN [error |-> "ValueError: No coordinate found", coordinate |-> JNull]
        ELSE [error |-> "none", coordinate |-> found[1]]

\* HEREAPI.places_api: location['Latitude'], location['Longitude']
places_api(loc) ==
    IF loc.ty # "dict" THEN "TypeError"
    ELSE IF ~HasKey(loc, "Latitude") \/ ~HasKey(loc, "Longitude") THEN "KeyError"
    ELSE "none"

\* nearby_coor after the request: response['results']['items']
nearby_items(body) ==
    LET r == requests_(body)
    IN  IF r.error # "none" THEN [error |-> r.error, items |-> <<>>]
        ELSE IF ~HasKey(r.response, "results")
                \/ ~HasKey(Item(r.response, "results"), "items")
             THEN [error |-> "KeyError", items |-> <<>>]
        ELSE [error |-> "none",
              items |-> Item(Item(r.response, "results"), "items").items]

\* `latitude, longitude = p.get('position')` inside try/except TypeError,
\* for a position that is None, a number or a list: unpacking None or a
\* number raises TypeError (caught, 0, 0 substituted), unpacking a list of
\* another length than 2 raises ValueError (not caught).
unpack_position(p) ==
    LET pos == Get(p, "position")
    IN  IF pos.ty = "list"
        THEN IF Len(pos.items) = 2
             THEN [error |-> "none", latitude |-> pos.items[1],
                   longitude |-> pos.items[2]]
             ELSE [error |-> "ValueError: unpack", latitude |-> JNull,
                   longitude |-> JNull]
        ELSE [error |-> "none", latitude |-> JInt(0), longitude |-> JInt(0)]

\* `if cmp_size > size: break` tested one too late
limit_reached_late(cmp, sz) == cmp > sz + 1

\* `if cmp_size > size: break`
limit_reached(cmp, sz) == cmp > sz

MaxTerms == 2
MaxItems == 2
MaxSize == 1
\* main(): funny_place
funny_place == <<JStr("beer"), JStr("club"), JStr("restaurant")>>
SeqsUpTo(S, n) == UNION {[1..m -> S] : m \in 0..n}
\* the nearby argument: the first terms of funny_place, or one bare term
NearbyArgs ==
    {JList(SubSeq(funny_place, 1, m)) : m \in 0..MaxTerms} \cup {funny_place[1]}

Coordinate(lat, lon) ==
    JDict(<<Entry("Latitude", JInt(lat)), Entry("Longitude", JInt(lon))>>)
GeoResponses ==
    { JDict(<<>>),
      JDict(<<Entry("Response", JDict(<<Entry("View", JList(<<>>))>>))>>),
      JDict(<<Entry("Response", JDict(<<Entry("DisplayPosition", Coordinate(1, 2))>>))>>),
      JDict(<<Entry("DisplayPosition", JDict(<<>>))>>),
      JDict(<<Entry("DisplayPosition", JInt(5))>>),
      JDict(<<Entry("DisplayPosition", JDict(<<Entry("Latitude", JInt(1))>>))>>),
      JList(<<JDict(<<Entry("NavigationPosition", Coordinate(3, 4)),
                      Entry("DisplayPosition", Coordinate(1, 2))>>),
              JDict(<<Entry("DisplayPosition", Coordinate(5, 6))>>)>>) }

Place(pos, vicinity, title) ==
    JDict(<<Entry("position", pos), Entry("vicinity", vicinity), Entry("title", title)>>)
PlaceA == Place(JList(<<JInt(10), JInt(20)>>), JStr("X"), JStr("A"))
PlaceB == JDict(<<Entry("title", JStr("B"))>>)
PlaceC == Place(JList(<<JInt(30), JInt(40)>>), JStr("Y"), JStr("C"))
PlaceNull == JDict(<<Entry("position", JNull), Entry("title", JStr("B"))>>)
PlaceScalar == JDict(<<Entry("position", JInt(7)), Entry("title", JStr("B"))>>)
PlaceShort == Place(JList(<<JInt(10)>>), JStr("X"), JStr("A"))
PlaceLong == Place(JList(<<JInt(10), JInt(20), JInt(30)>>), JStr("X"), JStr("A"))
Places == {PlaceA, PlaceB, PlaceC, PlaceNull, PlaceScalar, PlaceShort, PlaceLong}

PlacesBody(ps) == JDict(<<Entry("results", JDict(<<Entry("items", JList(ps))>>))>>)
\* the documented scenario, and three distinct usable places
ScenarioPlaces == {<<PlaceA, PlaceA, PlaceB>>, <<PlaceA, PlaceB, PlaceC>>}
PlacesResponses ==
    {JDict(<<>>), JDict(<<Entry("results", JDict(<<>>))>>)}
        \cup {PlacesBody(ps) : ps \in SeqsUpTo(Places, MaxItems) \cup ScenarioPlaces}

\* before Nearby(location, nearby, cls_map_api) is constructed
Init ==
    /\ pc = "Unresolved"
    /\ nearby \in NearbyArgs
    /\ geocode = JNull
    /\ location = JNull
    /\ size = 0
    /\ geojson = "None"
    /\ n_idx = 0
    /\ response = <<>>
    /\ p_idx = 0
    /\ cmp_size = 0
    /\ term_base = 0
    /\ queried = <<>>
    /\ dumped = 0
    /\ error = "none"
    /\ features = <<>>
    /\ count_feature = 0
    /\ ret = "none"
    /\ calls = <<>>
    /\ obj = JNull
    /\ key = ""
    /\ exclude = {}
    /\ out = <<>>

Abort(e) == pc' = "Aborted" /\ error' = e

\* RequesAPI.__init__: self.location = self.retrive_coordinate(location)
RetriveCoordinate ==
    /\ pc = "Unresolved"
    /\ \E body \in GeoResponses :
          LET r == retrive_coordinate(body)
          IN  /\ geocode' = body
              /\ IF r.error # "none"
                 THEN Abort(r.error) /\ UNCHANGED location
                 ELSE pc' = "Resolved" /\ location' = r.coordinate /\ UNCHANGED error
    /\ UNCHANGED <<nearby, size, geojson, n_idx, response, p_idx, cmp_size,
                   term_base, queried, dumped, exVars, fcVars, logVars>>

\* run(size) up to the head of `for n in self.nearby`
RunStart ==
    /\ pc = "Resolved"
    /\ \E sz \in 0..MaxSize : size' = sz
    /\ nearby' = IF nearby.ty # "list" THEN JList(<<nearby>>) ELSE nearby
    /\ geojson' = "GeoJsonFeatureCollection"
    /\ features' = <<>>
    /\ count_feature' = 0
    /\ n_idx' = 1
    /\ pc' = "for_n"
    /\ UNCHANGED <<geocode, location, response, p_idx, cmp_size, term_base,
                   queried, dumped, error, exVars, logVars>>

\* response = self.nearby_coor(n); cmp_size = 0
NearbyCoor ==
    /\ pc = "for_n"
    /\ n_idx <= Len(nearby.items)
    /\ IF places_api(location) # "none"
       THEN /\ Abort(places_api(location))
            /\ UNCHANGED <<response, p_idx, cmp_size, term_base, queried>>
       ELSE /\ queried' = Append(queried, nearby.items[n_idx])
            /\ \E body \in PlacesResponses :
                  LET r == nearby_items(body)
                  IN  IF r.error # "none"
                      THEN /\ Abort(r.error)
                           /\ UNCHANGED <<response, p_idx, cmp_size, term_base>>
                      ELSE /\ response' = r.items
                           /\ p_idx' = 1
                           /\ cmp_size' = 0
                           /\ term_base' = Len(features)
                           /\ pc' = "for_p"
                           /\ UNCHANGED error
    /\ UNCHANGED <<nearby, geocode, location, size, geojson, n_idx, dumped,
                   exVars, fcVars, logVars>>

\* one pass of the body of `for p in response`
Candidate ==
    /\ pc = "for_p"
    /\ p_idx <= Len(response)
    /\ ~limit_reached(cmp_size, size)
    /\ LET p == response[p_idx]
           u == unpack_position(p)
           r == add_features(features, count_feature,
                             Feature(u.longitude, u.latitude,
                                     Get(p, "vicinity"), Get(p, "title")))
       IN  IF u.error # "none"
           THEN /\ Abort(u.error)
                /\ UNCHANGED <<p_idx, cmp_size, fcVars, ret>>
           ELSE /\ features' = r.features
                /\ count_feature' = r.count_feature
                /\ ret' = r.ret
                /\ cmp_size' = IF r.ret THEN cmp_size + 1 ELSE cmp_size
                /\ p_idx' = p_idx + 1
                /\ UNCHANGED <<pc, error>>
    /\ UNCHANGED <<nearby, geocode, location, size, geojson, n_idx, response,
                   term_base, queried, dumped, exVars, calls>>

\* `for p in response` ends: the items are used up, or `break`
EndOfTerm ==
    /\ pc = "for_p"
    /\ p_idx > Len(response) \/ limit_reached(cmp_size, size)
    /\ n_idx' = n_idx + 1
    /\ pc' = "for_n"
    /\ UNCHANGED <<nearby, geocode, location, size, geojson, response, p_idx,
                   cmp_size, term_base, queried, dumped, error, exVars, fcVars,
                   logVars>>

\* Dump placed inside `for n in self.nearby`, after the inner loop
Dump_in_loop ==
    /\ pc = "for_n"
    /\ dumped < n_idx - 1
    /\ dumped' = dumped + 1
    /\ pc' = IF n_idx > Len(nearby.items) THEN "Done" ELSE pc
    /\ UNCHANGED <<nearby, geocode, location, size, geojson, n_idx, response,
                   p_idx, cmp_size, term_base, queried, error, exVars, fcVars,
                   logVars>>

\* GeoJsonFeatureCollection.dump(geojson, 'pymi') after the loop
Dump ==
    /\ pc = "for_n"
    /\ n_idx > Len(nearby.items)
    /\ dumped' = dumped + 1
    /\ pc' = "Done"
    /\ UNCHANGED <<nearby, geocode, location, size, geojson, n_idx, response,
                   p_idx, cmp_size, term_base, queried, error, exVars, fcVars,
                   logVars>>

Next ==
    \/ RetriveCoordinate
    \/ RunStart
    \/ NearbyCoor
    \/ Candidate
    \/ EndOfTerm
    \/ Dump

Spec == Init /\ [][Next]_vars

\* the key names an entry somewhere in t
OccursAnywhere(t, k) ==
    \E p \in AllPaths(t) : p # <<>> /\ StepIsKey(t, p, Len(p), k)

\* C6: a non-empty geocoding response with no DisplayPosition at any depth
\* ends the run with ValueError('No coordinate found'), before any places
\* query and before the collection is created.
C6_NoCoordinateFound ==
    (pc # "Unresolved" /\ ~Falsy(geocode)
        /\ ~OccursAnywhere(geocode, "DisplayPosition")) =>
        /\ pc = "Aborted"
        /\ error = "ValueError: No coordinate found"
        /\ queried = <<>>
        /\ geojson = "None"

\* position is absent, null, not a sequence, or a sequence not of length 2
BadPosition(p) ==
    LET pos == Get(p, "position")
    IN  pos.ty # "list" \/ Len(pos.items) # 2

\* C7: a candidate whose position is missing or wrong-shaped is stored with
\* the placeholder coordinates [0, 0] and the run goes on to the next one.
C7_BadPositionHandled ==
    [][(pc = "for_p" /\ pc' # "for_n" /\ BadPosition(response[p_idx])) =>
        /\ pc' = "for_p"
        /\ error' = "none"
        /\ p_idx' = p_idx + 1
        /\ Contains(features', Feature(JInt(0), JInt(0),
                                       Get(response[p_idx], "vicinity"),
                                       Get(response[p_idx], "title")))]_vars

\* C8: while a term is processed at most size + 1 features are newly stored;
\* the running count is the number of features stored for the term (a
\* rejected duplicate is not counted) and starts at 0 for every term.
C8_PerTermCap ==
    geojson # "None" =>
        /\ Len(features) - term_base <= size + 1
        /\ pc = "for_p" => cmp_size = Len(features) - term_base
        /\ (pc = "for_p" /\ p_idx = 1) => cmp_size = 0

\* the second term stores size + 1 features after rejecting a duplicate
C8_Witness ==
    /\ pc = "for_p"
    /\ n_idx = 2
    /\ term_base > 0
    /\ Len(features) - term_base = size + 1
    /\ p_idx - 1 > cmp_size

\* C9: the collection is written at most once, only when every term has
\* been queried in the given order and the loop is over; a run that aborts
\* never writes it.
C9_DumpOnceAtEnd ==
    /\ dumped <= 1
    /\ dumped = 1 =>
          /\ pc = "Done"
          /\ error = "none"
          /\ queried = nearby.items
          /\ n_idx = Len(nearby.items) + 1
    /\ pc = "Aborted" => dumped = 0

\* a run over two terms that ended with the one write
C9_Witness ==
    /\ pc = "Done"
    /\ dumped = 1
    /\ Len(queried) = 2
    /\ Len(features) > 0

====
